---- MODULE Spec2Model ----
(***************************************************************************)
(* smoltalk: the tool-augmented conversation engine (Toolbox.get_response  *)
(* and Toolbox._call_tool, src/src/smoltalk/toolbox.py) and the fan-out    *)
(* endpoint create_chat_completion (src/src/smoltalk/openairouter.py), and *)
(* the descriptor generator (function_to_dict and json_schema_type).       *)
(*                                                                         *)
(* The program runs on one asyncio event loop: a coroutine runs without    *)
(* interruption until it awaits the completion endpoint (client.post) or   *)
(* an asynchronous tool.  The variable running holds the run that owns the *)
(* loop between two such suspension points (0: the loop is free).          *)
(*                                                                         *)
(* Python values are modelled as follows.  Optional[str] fields hold a     *)
(* string or the sentinel None.  Optional lists and optional booleans are  *)
(* tagged records (PyNone, PyList, PyBool).  A ChatMessage is a record     *)
(* whose domain is exactly the set of fields that were set when it was     *)
(* built, which is what m.dict(exclude_unset=True) serializes.             *)
(***************************************************************************)
EXTENDS Naturals, Sequences, FiniteSets, TLC

\* Bounds of the model.
MaxN == 2
MaxServed == 3
MaxIssued == 2
MaxParams == 2

VARIABLES
    input_function,     \* the callable handed to function_to_dict
    descriptor,         \* what function_to_dict returned for it
    system_prompt,      \* self.system_prompt
    default_fail,       \* self.fail_on_tool_error
    entry,              \* "get_response": a direct call; "completions": POST /v1/chat/completions;
                        \* "__init__": the construction of the Toolbox
    n,                  \* chatRequest.n (1 for a direct call)
    call,               \* the auto_tool_call and fail_on_tool_error arguments of the outermost call
    messages,           \* the conversation list object handed to every run
    pc,                 \* per run: position in get_response
    frame,              \* per run: parameters and locals of the innermost get_response level
                        \* (kept after the return: response is then the reply as the run returned it)
    request_body,       \* per run: the last request body sent to the completion endpoint
    ret,                \* per run: the value returned, or the exception raised, by the outermost level
                        \* (the object itself: the handler's merge writes into the one run 1 returned)
    running,            \* the run that owns the event loop, 0 when it is free
    served,             \* number of replies the completion endpoint has produced
    issued,             \* number of tool-call ids the completion endpoint has produced
    attempted,          \* per run: the tool calls handed to _call_tool, in order (history)
    appended,           \* per run: the messages the run appended to the conversation (history)
    executed,           \* per run: the names of the callables _call_tool called, in order (history)
    cpc,                \* create_chat_completion: "gathering", "done", "failed"; "direct" for a direct call
    outp                \* what create_chat_completion returns or raises

\* The configuration and the request: fixed once the request is made.
config == <<input_function, descriptor, system_prompt, default_fail, entry, n, call>>

vars == <<config, messages, pc, frame, request_body, ret, running, served, issued,
          attempted, appended, executed, cpc, outp>>

Runs == 1..MaxN

-----------------------------------------------------------------------------
\* Python values.

None == "None"

PyNone == [t |-> "None"]

PyList(s) == [t |-> "list", v |-> s]

PyBool(b) == [t |-> "bool", v |-> b]

PyStr(s) == [t |-> "str", v |-> s]

PyErrorDict(m) == [t |-> "dict", error |-> m]

PyException(kind, m) == [t |-> "exception", kind |-> kind, msg |-> m]

\* m.<field> of a ChatMessage: an unset field reads as its default, None.
Field(m, f) == IF f \in DOMAIN m THEN m[f] ELSE None

\* ChatMessage(role=..., content=...)
SystemMessage(text) == [role |-> "system", content |-> text]

\* ChatMessage(role=..., content=..., tool_calls=...), built from a reply's message
AssistantMessage(msg) ==
    [role |-> msg.role,
     content |-> msg.content,
     tool_calls |-> IF "tool_calls" \in DOMAIN msg /\ msg.tool_calls.t = "list"
                    THEN msg.tool_calls ELSE PyNone]

\* json.dumps of the values a tool call can leave in response
json_dumps(v) ==
    IF v.t = "str" THEN "\"" \o v.v \o "\""
    ELSE "{\"error\": \"" \o v.error \o "\"}"

\* ChatMessage(role="tool", content=json.dumps(response), tool_call_id=..., name=...)
ToolMessage(response, tool_call) ==
    [role |-> "tool",
     content |-> json_dumps(response),
     tool_call_id |-> tool_call.id,
     name |-> tool_call.function.name]

-----------------------------------------------------------------------------
\* Sequences.

Last(s) == s[Len(s)]

RemoveAt(s, k) == [j \in 1..(Len(s) - 1) |-> IF j < k THEN s[j] ELSE s[j + 1]]

Range(s) == {s[j] : j \in 1..Len(s)}

\* All sequences over S of length 0..k
RECURSIVE SeqsUpTo(_, _)
SeqsUpTo(S, k) ==
    IF k = 0 THEN {<<>>}
    ELSE LET shorter == SeqsUpTo(S, k - 1)
         IN  shorter \cup {Append(s, x) : s \in {q \in shorter : Len(q) = k - 1}, x \in S}

-----------------------------------------------------------------------------
\* The descriptor generator: json_schema_type and function_to_dict.
\*
\* A callable is a record: its __name__, the summary line of its docstring, its
\* parameters in declaration order (name, the __name__ of the annotation with
\* "_empty" for a parameter without annotation, and whether it has a default)
\* and the entries of the Parameters section of its docstring as numpydoc
\* parses them (name, type, desc; type is the empty string when the entry
\* names no type). A documented type is a sequence of tokens whose
\* concatenation is the text of the type.

\* python_to_json_schema_types.get(python_type_name, "string")
json_schema_type(python_type_name) ==
    CASE python_type_name = "str"      -> "string"
      [] python_type_name = "int"      -> "integer"
      [] python_type_name = "float"    -> "number"
      [] python_type_name = "bool"     -> "boolean"
      [] python_type_name = "list"     -> "array"
      [] python_type_name = "dict"     -> "object"
      [] python_type_name = "NoneType" -> "null"
      [] OTHER                         -> "string"

\* The text of a sequence of tokens.
RECURSIVE Text(_)
Text(tokens) ==
    IF tokens = <<>> THEN "" ELSE Head(tokens) \o Text(Tail(tokens))

\* "optional" in param_type
ContainsOptional(tokens) == \E i \in 1..Len(tokens) : tokens[i] = "optional"

\* "{" in param_type
ContainsBrace(tokens) == \E i \in 1..Len(tokens) : tokens[i] = "{"

\* param_type.split(",")[0]
RECURSIVE SplitFirst(_)
SplitFirst(tokens) ==
    IF tokens = <<>> \/ Head(tokens) = "," THEN <<>>
    ELSE <<Head(tokens)>> \o SplitFirst(Tail(tokens))

\* The string literals of the documented types, and their values.
Quoted == {"'x'", "'y'"}

Unquote(token) == IF token = "'x'" THEN "x" ELSE "y"

\* The values ast.literal_eval gives on these texts: a str (v is its text,
\* chars its characters), a set of str (v is the set, ins its elements in the
\* order the display inserts them, each once), the empty dict and a tuple.
PySet(elts, ins) == [t |-> "set", v |-> elts, ins |-> ins]

PyDict == [t |-> "dict"]

PyTuple(items) == [t |-> "tuple", v |-> items]

\* The exception literal_eval raises (SyntaxError, ValueError or TypeError).
Malformed == [ok |-> FALSE]

\* The index after the run of adjacent string literals that starts at i.
RECURSIVE StrEnd(_, _)
StrEnd(tokens, i) ==
    IF i <= Len(tokens) /\ tokens[i] \in Quoted THEN StrEnd(tokens, i + 1) ELSE i

\* Adjacent string literals are one string: the characters of tokens i..j-1.
Chars(tokens, i, j) == [k \in 1..(j - i) |-> Unquote(tokens[i + k - 1])]

\* acc with chars added, unless it is there already.
Added(acc, chars) ==
    IF \E k \in 1..Len(acc) : acc[k] = chars THEN acc ELSE Append(acc, chars)

\* The elements of a set display from token i on, after those in acc: string
\* literals separated by commas, with an optional trailing comma, up to the
\* closing brace. A set or a dict as an element is unhashable, a name is not
\* a literal: both raise.
RECURSIVE SetElements(_, _, _)

\* The rest of a set display whose element at token i ends before token j;
\* acc holds the elements up to that one.
SetElementsAfter(tokens, i, j, acc) ==
    IF j = i \/ j > Len(tokens) THEN Malformed
    ELSE IF tokens[j] = "}" THEN [ok |-> TRUE, ins |-> acc, next |-> j + 1]
    ELSE IF tokens[j] = ","
         THEN IF j + 1 <= Len(tokens) /\ tokens[j + 1] = "}"
              THEN [ok |-> TRUE, ins |-> acc, next |-> j + 2]
              ELSE SetElements(tokens, j + 1, acc)
    ELSE Malformed

SetElements(tokens, i, acc) ==
    SetElementsAfter(tokens, i, StrEnd(tokens, i),
                     Added(acc, Chars(tokens, i, StrEnd(tokens, i))))

\* The str with these characters.
StrValue(chars) == [t |-> "str", v |-> Text(chars), chars |-> chars]

\* The set of the elements of a display, or the exception of the display.
SetValue(elements) ==
    IF elements.ok
    THEN [ok |-> TRUE, next |-> elements.next,
          v |-> PySet({Text(c) : c \in Range(elements.ins)}, elements.ins)]
    ELSE Malformed

\* The literal that starts at token i: a string, {} or a set display.
Literal(tokens, i) ==
    IF i > Len(tokens) THEN Malformed
    ELSE IF tokens[i] \in Quoted
         THEN [ok |-> TRUE, next |-> StrEnd(tokens, i),
               v |-> StrValue(Chars(tokens, i, StrEnd(tokens, i)))]
    ELSE IF tokens[i] = "{"
         THEN IF i + 1 <= Len(tokens) /\ tokens[i + 1] = "}"
              THEN [ok |-> TRUE, next |-> i + 2, v |-> PyDict]
              ELSE SetValue(SetElements(tokens, i + 1, <<>>))
    ELSE Malformed

\* The literals from token i on, after those in acc: one literal is its
\* value, literals separated by commas (or one followed by a comma) a tuple.
RECURSIVE Literals(_, _, _)

\* The literals after item, which follows those in acc.
LiteralsAfter(tokens, item, acc) ==
    IF ~item.ok THEN Malformed
    ELSE IF item.next > Len(tokens)
         THEN [ok |-> TRUE, v |-> IF acc = <<>> THEN item.v
                                  ELSE PyTuple(Append(acc, item.v))]
    ELSE IF tokens[item.next] = ","
         THEN IF item.next = Len(tokens)
              THEN [ok |-> TRUE, v |-> PyTuple(Append(acc, item.v))]
              ELSE Literals(tokens, item.next + 1, Append(acc, item.v))
    ELSE Malformed

Literals(tokens, i, acc) == LiteralsAfter(tokens, Literal(tokens, i), acc)

\* ast.literal_eval on the text of the tokens: ok and the value, or not ok
\* when it raises.
literal_eval(tokens) == Literals(tokens, 1, <<>>)

\* The orders in which the elements of ins (each once) can be listed.
Orders(ins) ==
    {order \in [1..Len(ins) -> Range(ins)] : Range(order) = Range(ins)}

\* The string hash seed of the process decides where the elements of a set
\* are stored, and so the order in which the set is iterated; elements that
\* share a slot are placed by the order of insertion. A seed is modeled by
\* the order it gives each of the set displays that are evaluated (a display
\* is its elements in the order of insertion): every assignment of an order
\* to every display is a seed.
HashSeeds(displays) ==
    {hash_seed \in [displays -> UNION {Orders(ins) : ins \in displays}] :
        \A ins \in displays : hash_seed[ins] \in Orders(ins)}

\* The order in which a set is iterated under a hash seed.
Iteration(set, hash_seed) == hash_seed[set.ins]

\* list(value): the characters of a str, the elements of a set in the order
\* of its iteration, the keys of the empty dict, the items of a tuple.
list(value, hash_seed) ==
    CASE value.t = "str"   -> value.chars
      [] value.t = "set"   -> LET order == Iteration(value, hash_seed)
                              IN  [k \in 1..Len(order) |-> Text(order[k])]
      [] value.t = "dict"  -> <<>>
      [] value.t = "tuple" -> value.v

\* "\n".join([s.strip() for s in lines])
RECURSIVE JoinLines(_)
JoinLines(lines) ==
    IF lines = <<>> THEN ""
    ELSE IF Len(lines) = 1 THEN Head(lines)
    ELSE Head(lines) \o "\n" \o JoinLines(Tail(lines))

\* The set displays in these values (the values of literal_eval on documented
\* types).
DisplaysIn(parses) == {parsed.v.ins : parsed \in {q \in parses : q.ok /\ q.v.t = "set"}}

\* The set displays line 302 evaluates for a callable: the documented types
\* of its parameters that hold a brace and not "optional".
Displays(f) ==
    DisplaysIn({literal_eval(f.docs[d].type) :
                   d \in {e \in 1..Len(f.docs) :
                             /\ \E k \in 1..Len(f.params) : f.params[k].name = f.docs[e].name
                             /\ ~ContainsOptional(f.docs[e].type)
                             /\ ContainsBrace(f.docs[e].type)}})

\* Lines 291-307: the body of the loop over numpydoc["Parameters"] for one
\* entry param_data, on the locals param_type, param_description, param_enum.
DocStep(locals, param_name, param_data, hash_seed) ==
    IF param_data.name # param_name THEN locals
    ELSE LET tokens == param_data.type
             stripped == IF ContainsOptional(tokens) THEN SplitFirst(tokens) ELSE tokens
             parsed == literal_eval(tokens)
             asEnum == ~ContainsOptional(tokens) /\ ContainsBrace(tokens) /\ parsed.ok
         IN  [param_type |-> PyStr(json_schema_type(IF asEnum THEN "string"
                                                     ELSE Text(stripped))),
              param_description |-> PyStr(JoinLines(param_data.desc)),
              param_enum |-> IF asEnum THEN PyList(list(parsed.v, hash_seed))
                             ELSE locals.param_enum]

\* Lines 290-307: the loop over numpydoc["Parameters"], from entry k on.
RECURSIVE DocLoop(_, _, _, _, _)
DocLoop(locals, param_name, docs, k, hash_seed) ==
    IF k > Len(docs) THEN locals
    ELSE DocLoop(DocStep(locals, param_name, docs[k], hash_seed),
                 param_name, docs, k + 1, hash_seed)

\* Lines 282-317: the entry of one parameter in the properties of the descriptor.
\* Only the values that are instances of str are kept.
ParamEntry(param, docs, hash_seed) ==
    LET start == [param_type |-> PyStr(json_schema_type(param.annotation)),
                  param_description |-> PyNone,
                  param_enum |-> PyNone]
        locals == DocLoop(start, param.name, docs, 1, hash_seed)
        param_dict == [type |-> locals.param_type,
                       description |-> locals.param_description,
                       enum |-> locals.param_enum]
        kept == {key \in DOMAIN param_dict : param_dict[key].t = "str"}
    IN  [key \in kept |-> param_dict[key].v]

\* Mutant of RequiredParams: the test of the default is missing.
RECURSIVE RequiredParamsAll(_, _)
RequiredParamsAll(params, k) ==
    IF k > Len(params) THEN <<>>
    ELSE <<params[k].name>> \o RequiredParamsAll(params, k + 1)

\* Lines 319-321: required_params after the parameters from k on.
RECURSIVE RequiredParams(_, _)
RequiredParams(params, k) ==
    IF k > Len(params) THEN <<>>
    ELSE (IF params[k].has_default THEN <<>> ELSE <<params[k].name>>)
         \o RequiredParams(params, k + 1)

\* function_to_dict(input_function), in a process with this hash seed.
function_to_dict(f, hash_seed) ==
    LET names == {f.params[k].name : k \in 1..Len(f.params)}
        properties == [nm \in names |->
                          LET k == CHOOSE k \in 1..Len(f.params) : f.params[k].name = nm
                          IN  ParamEntry(f.params[k], f.docs, hash_seed)]
        required_params == RequiredParams(f.params, 1)
        parameters == [type |-> "object", properties |-> properties]
    IN  [type |-> "function",
         function |-> [name |-> f.name,
                       description |-> JoinLines(f.summary),
                       parameters |-> IF required_params # <<>>
                                      THEN [type |-> "object", properties |-> properties,
                                            required |-> required_params]
                                      ELSE parameters]]

-----------------------------------------------------------------------------
\* The Toolbox under test: its tool collection and its configuration.

\* The public functions of self.tools: two plain functions that return a value,
\* one coroutine function, one function that returns an error payload and one
\* that raises.
ToolNames == {"alookup", "broken", "check", "lookup"}

\* The underscore-prefixed function of self.tools: a helper of the tools, left
\* out of the catalog by _generate_tool_signatures.
PrivateNames == {"_purge"}

\* The names getattr(self.tools, tool_name) finds.
Attributes == ToolNames \cup PrivateNames

\* inspect.iscoroutinefunction(tool)
iscoroutinefunction(name) == name = "alookup"

\* tool(**tool_args): what the callable does once it runs to its end
ToolBody(name) ==
    CASE name = "lookup"  -> [k |-> "return", v |-> PyStr("sunny")]
      [] name = "alookup" -> [k |-> "return", v |-> PyStr("sunny")]
      [] name = "check"   -> [k |-> "return", v |-> PyErrorDict("no data")]
      [] name = "broken"  -> [k |-> "raise", e |-> "boom"]
      [] name = "_purge"  -> [k |-> "return", v |-> PyStr("purged")]

\* self.tool_signatures: one descriptor per public member, in getmembers (name) order
tool_signatures == <<"alookup", "broken", "check", "lookup">>

GoodArgs == "{}"

BadArgs == "{"

\* json.loads(tool_call["function"]["arguments"]) succeeds
JsonLoads(arguments) == arguments = GoodArgs

\* Lines 182-186 succeed: _call_tool reaches the call of the tool.
Callable(tool_call) ==
    /\ JsonLoads(tool_call.function.arguments)
    /\ tool_call.function.name \in Attributes

\* _call_tool up to the point where the tool is called: the exception it raises
\* before that, or the suspension on a coroutine, or the outcome of a plain call.
CallOutcome(tool_call) ==
    LET tool_name == tool_call.function.name
        arguments == tool_call.function.arguments
    IN  IF ~JsonLoads(arguments)
        THEN [k |-> "raise", e |-> "Expecting property name"]
        ELSE IF tool_name \notin Attributes
        THEN [k |-> "raise", e |-> "no attribute " \o tool_name]
        ELSE IF iscoroutinefunction(tool_name)
        THEN [k |-> "await"]
        ELSE ToolBody(tool_name)

\* if self.system_prompt:
Truthy(text) == text \notin {None, ""}

IsSystemRole(m) == m.role \in {"system", "developer"}

\* The index of the first system or developer message, 0 when there is none.
FirstSystem(ms) ==
    IF \E k \in 1..Len(ms) : IsSystemRole(ms[k])
    THEN CHOOSE k \in 1..Len(ms) :
            IsSystemRole(ms[k]) /\ \A j \in 1..(k - 1) : ~IsSystemRole(ms[j])
    ELSE 0

\* Mutant of Normalized: the first message is popped whatever its role.
NormalizedPoppingFirst(ms, prompt) ==
    LET popped == IF ms = <<>> THEN ms ELSE Tail(ms)
    IN  IF Truthy(prompt) THEN <<SystemMessage(prompt)>> \o popped ELSE popped

\* The normalization step of get_response: pop the first system or developer
\* message, then insert the configured system prompt at position 0.
Normalized(ms, prompt) ==
    LET k == FirstSystem(ms)
        popped == IF k = 0 THEN ms ELSE RemoveAt(ms, k)
    IN  IF Truthy(prompt) THEN <<SystemMessage(prompt)>> \o popped ELSE popped

\* Mutant of RequestBody: the tools are offered with every request.
RequestBodyAlwaysOffering(ms) ==
    [model |-> "m", messages |-> ms, n |-> 1,
     tools |-> tool_signatures, tool_choice |-> "auto"]

\* request_body: the tool catalog and tool_choice are attached unless the last
\* message has role tool.
RequestBody(ms) ==
    IF Last(ms).role # "tool"
    THEN [model |-> "m", messages |-> ms, n |-> 1,
          tools |-> tool_signatures, tool_choice |-> "auto"]
    ELSE [model |-> "m", messages |-> ms, n |-> 1]

\* type(response) is dict and response.get("error")
IsErrorPayload(v) == v.t = "dict" /\ "error" \in DOMAIN v /\ v.error # ""

\* response["choices"][0]["message"].get("tool_calls")
GetToolCalls(response) ==
    LET msg == response.choices[1].message
    IN  IF "tool_calls" \in DOMAIN msg THEN msg.tool_calls ELSE PyNone

\* Mutant of EntersToolLoop: the length test is missing.
EntersToolLoopWithoutLen(auto_tool_call, tool_calls) ==
    auto_tool_call /\ tool_calls.t = "list"

\* auto_tool_call and tool_calls is not None and len(tool_calls) > 0
EntersToolLoop(auto_tool_call, tool_calls) ==
    auto_tool_call /\ tool_calls.t = "list" /\ Len(tool_calls.v) > 0

-----------------------------------------------------------------------------
\* The environment: input conversations and the replies of the completion endpoint.

User(text) == [role |-> "user", content |-> text]

\* A tool result the client ran itself and sends as the last message.
ClientToolMessage ==
    [role |-> "tool", content |-> "\"42\"", tool_call_id |-> "call_0", name |-> "lookup"]

InputConversations ==
    { <<User("hi")>>,
      <<SystemMessage("A"), User("hi")>>,
      <<User("hi"), [role |-> "developer", content |-> "D"]>>,
      <<SystemMessage("A"), SystemMessage("B"), User("hi")>>,
      <<SystemMessage("A")>>,
      <<User("hi"), ClientToolMessage>> }

\* The conversations a fan-out request is tried on.
FanoutConversations ==
    { <<User("hi")>>,
      <<SystemMessage("A"), User("hi")>> }

\* The function dicts a reply may carry.
CallKinds ==
    { [name |-> nm, arguments |-> GoodArgs] : nm \in Attributes \cup {"nosuch"} }
    \cup { [name |-> "lookup", arguments |-> BadArgs] }

\* The function dicts a reply to a run of a fan-out request may carry.
FanoutCallKinds ==
    { [name |-> nm, arguments |-> GoodArgs] : nm \in {"alookup", "check"} }

CallId(j) == "call_" \o ToString(j)

\* A reply's tool_calls list: the function dicts fs with fresh ids after base.
WithIds(fs, base) ==
    [j \in 1..Len(fs) |-> [id |-> CallId(base + j), function |-> fs[j]]]

\* The message of reply number k. shape is how tool_calls appears in it:
\* "omitted", "null" or "list".
ReplyMessage(k, shape, calls) ==
    LET content == IF calls = <<>> THEN "answer-" \o ToString(k) ELSE None
    IN  CASE shape = "omitted" -> [role |-> "assistant", content |-> content]
          [] shape = "null"    -> [role |-> "assistant", content |-> content,
                                   tool_calls |-> PyNone]
          [] shape = "list"    -> [role |-> "assistant", content |-> content,
                                   tool_calls |-> PyList(calls)]

\* resp.json() of reply number k
Completion(k, msg) ==
    [t |-> "dict", id |-> "chatcmpl-" \o ToString(k), model |-> "m", created |-> k,
     choices |-> << [index |-> 0, message |-> msg] >>]

\* The runs of the request that have neither returned nor raised.
Unfinished == {r \in 1..n : pc[r] \notin {"returned", "raised"}}

\* The tool_calls lists the next reply may carry. The endpoint issues at most
\* MaxIssued tool calls and answers at most MaxServed requests: it asks for
\* tools only while it can still answer every unfinished run once more.
ToolCallLists ==
    LET kinds == IF entry = "get_response" THEN CallKinds ELSE FanoutCallKinds
    IN  { fs \in SeqsUpTo(kinds, MaxIssued - issued) :
            fs # <<>> => served + 1 + Cardinality(Unfinished) <= MaxServed }

-----------------------------------------------------------------------------
\* State.

\* Mutant of NewFrame: a recursion-depth bound. A level entered by recursion
\* does not run tools, so the recursion ends at depth 2.
NewFrameBounded(depth, auto_tool_call, fail_on_tool_error) ==
    [depth |-> depth,
     auto_tool_call |-> auto_tool_call /\ depth < 2,
     fail_on_tool_error |-> fail_on_tool_error,
     tool_calls |-> PyNone,
     i |-> 0,
     response |-> PyNone]

\* The parameters and locals of a get_response level at its entry.
NewFrame(depth, auto_tool_call, fail_on_tool_error) ==
    [depth |-> depth,
     auto_tool_call |-> auto_tool_call,
     fail_on_tool_error |-> fail_on_tool_error,
     tool_calls |-> PyNone,
     i |-> 0,
     response |-> PyNone]

\* No request has been made yet.
InitIdle ==
    /\ request_body = [r \in Runs |-> PyNone]
    /\ ret = [r \in Runs |-> PyNone]
    /\ running = 0
    /\ served = 0
    /\ issued = 0
    /\ attempted = [r \in Runs |-> <<>>]
    /\ appended = [r \in Runs |-> {}]
    /\ executed = [r \in Runs |-> <<>>]
    /\ outp = PyNone

InitCommon ==
    /\ input_function = PyNone
    /\ descriptor = PyNone
    /\ system_prompt \in {None, "P"}
    /\ default_fail \in BOOLEAN
    /\ InitIdle

\* toolbox.get_response(msgs, auto_tool_call=..., fail_on_tool_error=...)
InitDirect ==
    /\ InitCommon
    /\ entry = "get_response"
    /\ messages \in InputConversations
    /\ n = 1
    /\ cpc = "direct"
    /\ pc = [r \in Runs |-> IF r = 1 THEN "enter" ELSE "unused"]
    /\ call \in [auto_tool_call : BOOLEAN,
                 fail_on_tool_error : {PyNone, PyBool(TRUE), PyBool(FALSE)}]
    /\ frame = [r \in Runs |-> NewFrame(1, call.auto_tool_call, call.fail_on_tool_error)]

\* create_chat_completion: tasks = [get_response(chatRequest.messages) for _ in range(n)]
InitCompletions ==
    /\ InitCommon
    /\ entry = "completions"
    /\ messages \in FanoutConversations
    /\ n \in 1..MaxN
    /\ cpc = "gathering"
    /\ pc = [r \in Runs |-> IF r <= n THEN "enter" ELSE "unused"]
    /\ call = [auto_tool_call |-> TRUE, fail_on_tool_error |-> PyNone]
    /\ frame = [r \in Runs |-> NewFrame(1, call.auto_tool_call, call.fail_on_tool_error)]

Init == InitDirect \/ InitCompletions

-----------------------------------------------------------------------------
\* get_response, one action per stretch of code between two suspension points
\* or observable steps.

\* Mutant of MayEnter: a level entered by recursion waits for the loop to be
\* free, while its caller holds it.
MayEnterWhenFree(r) ==
    running = 0 /\ \A s \in 1..(r - 1) : pc[s] # "enter"

\* The run may take the event loop: a level entered by recursion already owns
\* it; the tasks of a gather start in creation order when the loop is free.
MayEnter(r) ==
    IF frame[r].depth > 1 THEN running = r
    ELSE running = 0 /\ \A s \in 1..(r - 1) : pc[s] # "enter"

\* A suspended run is resumed by an event (a reply, the end of a coroutine
\* tool) when the loop is free. Events are polled after the ready tasks have
\* run, so not before every task of the gather has started.
MayResume ==
    /\ running = 0
    /\ \A s \in 1..n : pc[s] # "enter"

\* if fail_on_tool_error is None: fail_on_tool_error = self.fail_on_tool_error
Resolved(fail_on_tool_error) ==
    IF fail_on_tool_error = PyNone THEN PyBool(default_fail) ELSE fail_on_tool_error

\* Lines 86-98: resolve the error policy and normalize the system message.
Normalize(r) ==
    /\ pc[r] = "enter"
    /\ MayEnter(r)
    /\ frame' = [frame EXCEPT ![r].fail_on_tool_error = Resolved(@)]
    /\ messages' = Normalized(messages, system_prompt)
    /\ pc' = [pc EXCEPT ![r] = "normalized"]
    /\ running' = r
    /\ UNCHANGED <<config, request_body, ret, served,
                   issued, attempted, appended, executed, cpc, outp>>

\* Lines 100-120: build the request body and await client.post. messages[-1]
\* raises IndexError on an empty conversation.
Post(r) ==
    /\ pc[r] = "normalized"
    /\ running = r
    /\ IF messages = <<>>
       THEN /\ pc' = [pc EXCEPT ![r] = "raised"]
            /\ ret' = [ret EXCEPT ![r] = PyException("IndexError", "list index out of range")]
            /\ UNCHANGED request_body
       ELSE /\ pc' = [pc EXCEPT ![r] = "awaiting_post"]
            /\ request_body' = [request_body EXCEPT ![r] = RequestBody(messages)]
            /\ UNCHANGED ret
    /\ running' = 0
    /\ UNCHANGED <<config, messages, frame, served,
                   issued, attempted, appended, executed, cpc, outp>>

\* The bodies a non-2xx answer may carry: a JSON error object, or text that is
\* not JSON (an error page of a proxy, an empty body).
ErrorBodies == {"json", "text"}

\* Lines 131-132 on a non-2xx answer: the argument of the debug call at line 131
\* evaluates resp.json(), which raises on a body that is not JSON; otherwise
\* raise_for_status raises at line 132.
ErrorRaised(body) ==
    IF body = "json" THEN PyException("HTTPStatusError", "500")
    ELSE PyException("JSONDecodeError", "Expecting value")

\* Lines 131-132: the endpoint answers with a non-2xx status.
ReceiveError(r) ==
    /\ pc[r] = "awaiting_post"
    /\ MayResume
    /\ pc' = [pc EXCEPT ![r] = "raised"]
    /\ \E body \in ErrorBodies : ret' = [ret EXCEPT ![r] = ErrorRaised(body)]
    /\ served' = served + 1
    /\ UNCHANGED <<config, messages, frame, request_body,
                   running, issued, attempted, appended, executed, cpc, outp>>

\* Lines 133-143 and 176: the endpoint answers 2xx; append the assistant
\* message, then enter the tool loop or return the reply.
ReceiveReply(r) ==
    /\ pc[r] = "awaiting_post"
    /\ MayResume
    /\ \E shape \in {"omitted", "null", "list"}, fs \in ToolCallLists :
          /\ fs # <<>> => shape = "list"
          /\ LET k == served + 1
                 msg == ReplyMessage(k, shape, WithIds(fs, issued))
                 response == Completion(k, msg)
                 tool_calls == GetToolCalls(response)
                 am == AssistantMessage(response.choices[1].message)
             IN  /\ served' = k
                 /\ issued' = issued + Len(fs)
                 /\ messages' = Append(messages, am)
                 /\ appended' = [appended EXCEPT ![r] = @ \cup {am}]
                 /\ frame' = [frame EXCEPT ![r].response = response,
                                           ![r].tool_calls = tool_calls,
                                           ![r].i = 1]
                 /\ IF EntersToolLoop(frame[r].auto_tool_call, tool_calls)
                    THEN /\ pc' = [pc EXCEPT ![r] = "tool_loop"]
                         /\ running' = r
                         /\ UNCHANGED ret
                    ELSE /\ pc' = [pc EXCEPT ![r] = "returned"]
                         /\ running' = 0
                         /\ ret' = [ret EXCEPT ![r] = response]
    /\ UNCHANGED <<config, request_body, attempted, executed, cpc, outp>>

\* Lines 148 and 158-160: what a finished _call_tool leaves in response.
ToolResponse(o) ==
    IF o.k = "return" THEN o.v
    ELSE PyErrorDict("Tool call failed with exception: " \o o.e)

\* Lines 150-156 and 162-163: the early return of the tool loop.
ShortCircuits(fail_on_tool_error, o) ==
    fail_on_tool_error /\ (o.k = "raise" \/ IsErrorPayload(o.v))

\* Mutant of WithToolMessage: the tool message is inserted right after the
\* assistant message, in front of the tool messages of the turn.
WithToolMessageInFront(ms, response, tool_call) ==
    IF Last(ms).role = "tool"
    THEN SubSeq(ms, 1, Len(ms) - 1) \o <<ToolMessage(response, tool_call), Last(ms)>>
    ELSE Append(ms, ToolMessage(response, tool_call))

\* Mutant of WithToolMessage: only a successful result is appended.
WithToolMessageOnSuccess(ms, response, tool_call) ==
    IF IsErrorPayload(response) THEN ms ELSE Append(ms, ToolMessage(response, tool_call))

\* Lines 165-172: messages.append(ChatMessage(role="tool", ...))
WithToolMessage(ms, response, tool_call) == Append(ms, ToolMessage(response, tool_call))

\* Lines 149-172: the rest of one iteration of the tool loop, once _call_tool
\* has returned or raised.
Settle(r, o) ==
    LET tool_call == frame[r].tool_calls.v[frame[r].i]
        response == ToolResponse(o)
    IN  IF ShortCircuits(frame[r].fail_on_tool_error.v, o)
        THEN /\ pc' = [pc EXCEPT ![r] = "returned"]
             /\ ret' = [ret EXCEPT ![r] = response]
             /\ frame' = [frame EXCEPT ![r].response = response]
             /\ running' = 0
             /\ UNCHANGED <<messages, appended>>
        ELSE /\ pc' = [pc EXCEPT ![r] = "tool_loop"]
             /\ messages' = WithToolMessage(messages, response, tool_call)
             /\ appended' = [appended EXCEPT ![r] = @ \cup {ToolMessage(response, tool_call)}]
             /\ frame' = [frame EXCEPT ![r].response = response, ![r].i = @ + 1]
             /\ running' = r
             /\ UNCHANGED ret

\* Line 148: response = await self._call_tool(tool_call), up to its return, its
\* exception or its suspension on a coroutine tool.
CallTool(r) ==
    /\ pc[r] = "tool_loop"
    /\ running = r
    /\ frame[r].i <= Len(frame[r].tool_calls.v)
    /\ LET tool_call == frame[r].tool_calls.v[frame[r].i]
           o == CallOutcome(tool_call)
       IN  /\ attempted' = [attempted EXCEPT ![r] = Append(@, tool_call)]
           /\ executed' = [executed EXCEPT ![r] =
                               IF Callable(tool_call)
                               THEN Append(@, tool_call.function.name) ELSE @]
           /\ IF o.k = "await"
              THEN /\ pc' = [pc EXCEPT ![r] = "awaiting_tool"]
                   /\ running' = 0
                   /\ UNCHANGED <<messages, appended, frame, ret>>
              ELSE Settle(r, o)
    /\ UNCHANGED <<config, request_body, served, issued,
                   cpc, outp>>

\* Line 188: the awaited coroutine tool finishes.
ToolDone(r) ==
    /\ pc[r] = "awaiting_tool"
    /\ MayResume
    /\ Settle(r, ToolBody(frame[r].tool_calls.v[frame[r].i].function.name))
    /\ UNCHANGED <<config, request_body, served, issued,
                   attempted, executed, cpc, outp>>

\* Line 174: response = await self.get_response(messages). The inner level gets
\* the default parameters; its return value and its exceptions are those of
\* the outer level, so only the innermost frame is kept.
Recurse(r) ==
    /\ pc[r] = "tool_loop"
    /\ running = r
    /\ frame[r].i > Len(frame[r].tool_calls.v)
    /\ frame' = [frame EXCEPT ![r] = NewFrame(frame[r].depth + 1, TRUE, PyNone)]
    /\ pc' = [pc EXCEPT ![r] = "enter"]
    /\ UNCHANGED <<config, messages, request_body, ret,
                   running, served, issued, attempted, appended, executed, cpc, outp>>

-----------------------------------------------------------------------------
\* create_chat_completion

\* Mutant of Merged: every choice is taken from the first result.
MergedFromFirst(msgs) ==
    [msgs[1] EXCEPT !.choices = [j \in 1..Len(msgs) |-> msgs[1].choices[1]]]

\* outp = msgs[0]; outp["choices"] = [msg["choices"][0] for msg in msgs]
Merged(msgs) ==
    [msgs[1] EXCEPT !.choices = [j \in 1..Len(msgs) |-> msgs[j].choices[1]]]

\* msgs = await asyncio.gather(*tasks): the first exception of a run is raised
\* in the handler at once; the other runs keep running.
GatherRaises ==
    /\ cpc = "gathering"
    /\ MayResume
    /\ \E r \in 1..n :
          /\ pc[r] = "raised"
          /\ outp' = ret[r]
    /\ cpc' = "failed"
    /\ UNCHANGED <<config, messages, pc, frame,
                   request_body, ret, running, served, issued, attempted, appended, executed>>

\* Lines 19-22: every run has returned; merge. outp is msgs[0], the dict run 1
\* returned, and the merge assigns its choices in place: the value run 1
\* returned and the handler's result are one object. msg["choices"] raises
\* KeyError on a result that has no such key, before anything is assigned.
GatherReturns ==
    /\ cpc = "gathering"
    /\ MayResume
    /\ \A r \in 1..n : pc[r] = "returned"
    /\ LET msgs == [r \in 1..n |-> ret[r]]
       IN  IF \A r \in 1..n : "choices" \in DOMAIN msgs[r]
           THEN /\ cpc' = "done"
                /\ outp' = Merged(msgs)
                /\ ret' = [ret EXCEPT ![1] = Merged(msgs)]
           ELSE /\ cpc' = "failed"
                /\ outp' = PyException("KeyError", "choices")
                /\ UNCHANGED ret
    /\ UNCHANGED <<config, messages, pc, frame,
                   request_body, running, served, issued, attempted, appended, executed>>

Next ==
    \/ \E r \in Runs : Normalize(r)
    \/ \E r \in Runs : Post(r)
    \/ \E r \in Runs : ReceiveError(r)
    \/ \E r \in Runs : ReceiveReply(r)
    \/ \E r \in Runs : CallTool(r)
    \/ \E r \in Runs : ToolDone(r)
    \/ \E r \in Runs : Recurse(r)
    \/ GatherRaises
    \/ GatherReturns

Spec == Init /\ [][Next]_vars

\* The steps of a direct call of get_response.
GetResponseNext ==
    \/ \E r \in Runs : Normalize(r)
    \/ \E r \in Runs : Post(r)
    \/ \E r \in Runs : ReceiveError(r)
    \/ \E r \in Runs : ReceiveReply(r)
    \/ \E r \in Runs : CallTool(r)
    \/ \E r \in Runs : ToolDone(r)
    \/ \E r \in Runs : Recurse(r)

\* The event loop runs the task of the call (run 1) whenever it is ready;
\* every completion request is answered (2xx or not) and every awaited
\* coroutine tool finishes.
Fairness ==
    /\ WF_vars(Normalize(1))
    /\ WF_vars(Post(1))
    /\ WF_vars(ReceiveError(1) \/ ReceiveReply(1))
    /\ WF_vars(CallTool(1))
    /\ WF_vars(ToolDone(1))
    /\ WF_vars(Recurse(1))

\* A direct call of get_response under these scheduling assumptions.
FairSpec == InitDirect /\ [][GetResponseNext]_vars /\ Fairness

-----------------------------------------------------------------------------
\* The construction of the Toolbox: _generate_tool_signatures hands each public
\* function of the tool collection to function_to_dict.

ParamName(k) == "p" \o ToString(k)

\* The __name__ of the annotations: int, list, and none (inspect's _empty).
Annotations == {"int", "list", "_empty"}

\* The types the Parameters section documents: none, a type name, an optional
\* type, a set of string literals, a set of bare names, an unclosed brace and
\* an optional set of string literals, and a set that repeats a literal and
\* ends with a comma.
DocTypes ==
    { <<>>,
      <<"float">>,
      <<"bool", ",", "optional">>,
      <<"{", "'x'", ",", "'y'", "}">>,
      <<"{", "x", ",", "y", "}">>,
      <<"{", "'x'">>,
      <<"{", "'x'", ",", "'y'", "}", ",", "optional">>,
      <<"{", "'x'", ",", "'x'", ",", "}">> }

\* A parameter as written: its annotation, whether it has a default, and its
\* entry in the Parameters section, if any.
ParamShapes ==
    [annotation : Annotations,
     has_default : BOOLEAN,
     doc : {[documented |-> FALSE]} \cup {[documented |-> TRUE, type |-> t] : t \in DocTypes}]

\* numpydoc["Parameters"]: the entries of the documented parameters from k on.
RECURSIVE DocsOf(_, _)
DocsOf(shapes, k) ==
    IF k > Len(shapes) THEN <<>>
    ELSE (IF shapes[k].doc.documented
          THEN <<[name |-> ParamName(k), type |-> shapes[k].doc.type,
                  desc |-> <<"about " \o ParamName(k)>>]>>
          ELSE <<>>)
         \o DocsOf(shapes, k + 1)

\* The callable with these parameters.
MakeCallable(shapes) ==
    [name |-> "tool",
     summary |-> <<"Does it.">>,
     params |-> [k \in 1..Len(shapes) |->
                    [name |-> ParamName(k),
                     annotation |-> shapes[k].annotation,
                     has_default |-> shapes[k].has_default]],
     docs |-> DocsOf(shapes, 1)]

\* The callables of up to k parameters.
Callables(k) == {MakeCallable(shapes) : shapes \in SeqsUpTo(ParamShapes, k)}

DescriptorInit ==
    /\ input_function \in Callables(MaxParams)
    /\ descriptor = PyNone
    /\ system_prompt = None
    /\ default_fail = FALSE
    /\ entry = "__init__"
    /\ n = 0
    /\ call = [auto_tool_call |-> TRUE, fail_on_tool_error |-> PyNone]
    /\ messages = <<>>
    /\ cpc = "direct"
    /\ pc = [r \in Runs |-> "unused"]
    /\ frame = [r \in Runs |-> NewFrame(1, call.auto_tool_call, call.fail_on_tool_error)]
    /\ InitIdle

\* Lines 210-216: function_to_dict(func) for a public function of the collection.
GenerateToolSignature ==
    /\ entry = "__init__"
    /\ descriptor = PyNone
    /\ \E hash_seed \in HashSeeds(Displays(input_function)) :
          descriptor' = function_to_dict(input_function, hash_seed)
    /\ UNCHANGED <<input_function, system_prompt, default_fail, entry, n, call,
                   messages, pc, frame, request_body, ret, running, served, issued,
                   attempted, appended, executed, cpc, outp>>

DescriptorSpec == DescriptorInit /\ [][GenerateToolSignature]_vars

-----------------------------------------------------------------------------
\* Helpers of the properties.

\* The indices of the tool messages that answer the tool call with this id.
ToolIndices(id) ==
    {k \in 1..Len(messages) :
        messages[k].role = "tool" /\ Field(messages[k], "tool_call_id") = id}

\* The tool calls an assistant message carries.
CallsOf(m) ==
    IF "tool_calls" \in DOMAIN m /\ m.tool_calls.t = "list" THEN m.tool_calls.v ELSE <<>>

\* The reply carries no tool calls: the field is omitted, null or an empty list.
CarriesNoToolCalls(response) ==
    /\ "choices" \in DOMAIN response
    /\ LET msg == response.choices[1].message
       IN  \/ "tool_calls" \notin DOMAIN msg
           \/ msg.tool_calls = PyNone
           \/ msg.tool_calls = PyList(<<>>)

-----------------------------------------------------------------------------
\* C1. Fan-out isolation: no run of a fan-out request ever works on a
\* conversation, or sends a completion request, that holds an assistant or
\* tool message appended by a sibling run.
C1_FanoutIsolation ==
    \A r \in 1..n : \A s \in (1..n) \ {r} :
        /\ pc[r] \notin {"returned", "raised"} => Range(messages) \cap appended[s] = {}
        /\ request_body[r] # PyNone => Range(request_body[r].messages) \cap appended[s] = {}

\* C2. Tool-call ordering: for every assistant message with tool calls
\* [c1..ck], the tool message for ci sits before the tool message for cj
\* whenever i < j, none of them is skipped, and all of them sit after that
\* assistant message.
C2_ToolCallOrdering ==
    \A a \in 1..Len(messages) :
        LET calls == CallsOf(messages[a])
        IN  \A i \in 1..Len(calls) :
                /\ \A p \in ToolIndices(calls[i].id) : p > a
                /\ \A j \in (i + 1)..Len(calls) :
                      /\ ToolIndices(calls[j].id) # {} => ToolIndices(calls[i].id) # {}
                      /\ \A p \in ToolIndices(calls[i].id), q \in ToolIndices(calls[j].id) :
                            p < q

\* A conversation where both tool calls of one assistant message are answered.
C2_Witness ==
    \E a \in 1..Len(messages) :
        LET calls == CallsOf(messages[a])
        IN  /\ Len(calls) >= 2
            /\ ToolIndices(calls[1].id) # {}
            /\ ToolIndices(calls[2].id) # {}

\* C3. Terminal condition: when a run receives a reply without tool calls, in
\* that step it appends the reply's assistant message and returns the reply,
\* without a tool invocation; and a run that has returned sends no further
\* completion request and invokes no tool.
C3_TerminalCondition ==
    [][\A r \in Runs :
          /\ ( /\ pc[r] = "awaiting_post"
               /\ pc'[r] \notin {"awaiting_post", "raised"}
               /\ CarriesNoToolCalls(frame'[r].response) )
             => /\ pc'[r] = "returned"
                /\ ret'[r] = frame'[r].response
                /\ messages' = Append(messages,
                                      AssistantMessage(ret'[r].choices[1].message))
                /\ attempted'[r] = attempted[r]
                /\ request_body'[r] = request_body[r]
          /\ pc[r] = "returned"
             => /\ pc'[r] = "returned"
                /\ executed'[r] = executed[r]
                /\ attempted'[r] = attempted[r]
                /\ request_body'[r] = request_body[r]
      ]_vars

\* A run has returned a reply without tool calls after a tool-call turn.
C3_Witness ==
    \E r \in Runs :
        /\ pc[r] = "returned"
        /\ CarriesNoToolCalls(ret[r])
        /\ frame[r].depth > 1

\* The error policy the outermost call runs under: its fail_on_tool_error
\* argument, or the Toolbox default when the argument is not given.
ChainPolicy == Resolved(call.fail_on_tool_error).v

\* What the invocation of a tool call ends with, a coroutine tool included.
FinalOutcome(tool_call) ==
    LET o == CallOutcome(tool_call)
    IN  IF o.k = "await" THEN ToolBody(tool_call.function.name) ELSE o

\* The invocation raises: unknown tool name, unparsable arguments, or the tool raises.
Raises(tool_call) == FinalOutcome(tool_call).k = "raise"

\* The invocation fails: it raises, or the tool returns an error payload.
Fails(tool_call) ==
    \/ Raises(tool_call)
    \/ IsErrorPayload(FinalOutcome(tool_call).v)

\* The k-th invocation of run r has ended.
Finished(r, k) == k < Len(attempted[r]) \/ pc[r] # "awaiting_tool"

\* C4. Fail-fast short-circuit: under fail_on_tool_error, once a tool
\* invocation of a run has failed, the run has returned the error payload of
\* that invocation and has invoked no further tool (a run that has returned
\* sends no request and appends nothing, see C3).
C4_FailFast ==
    \A r \in 1..n : \A k \in 1..Len(attempted[r]) :
        (ChainPolicy /\ Finished(r, k) /\ Fails(attempted[r][k]))
        => /\ pc[r] = "returned"
           /\ ret[r] = ToolResponse(FinalOutcome(attempted[r][k]))
           /\ k = Len(attempted[r])

\* C5. Recoverable tool errors: without fail_on_tool_error, once a tool
\* invocation of a run has raised (unknown tool name, unparsable arguments, or
\* the tool raises), its error payload is in the conversation as the tool
\* message of that call; the run has not returned that payload, and no
\* exception other than an upstream failure has left get_response; and once
\* the turn is over, the tool message has been sent back to the model.
C5_RecoverableToolErrors ==
    \A r \in 1..n : \A k \in 1..Len(attempted[r]) :
        (~ChainPolicy /\ Finished(r, k) /\ Raises(attempted[r][k]))
        => LET payload == ToolResponse(FinalOutcome(attempted[r][k]))
               tool_message == ToolMessage(payload, attempted[r][k])
           IN  /\ tool_message \in appended[r]
               /\ tool_message \in Range(messages)
               /\ ret[r] # payload
               /\ pc[r] = "raised" => ret[r].kind \in {ErrorRaised(b).kind : b \in ErrorBodies}
               /\ pc[r] \in {"awaiting_post", "returned", "raised"}
                  => tool_message \in Range(request_body[r].messages)

\* A run of the request has failed: it raised, or it returned an error payload.
RunFailed(r) ==
    \/ pc[r] = "raised"
    \/ pc[r] = "returned" /\ IsErrorPayload(ret[r])

\* C6. Fan-out partial failure: a failed run does not fail the request; the
\* handler leaves the gather only when every run has finished, and then
\* returns a merged response of n results.
C6_PartialFailure ==
    (entry = "completions" /\ \E r \in 1..n : RunFailed(r))
    => /\ cpc # "failed"
       /\ cpc = "done" => (Unfinished = {} /\ Len(outp.choices) = n)

\* C7. Fan-out ordering: the merged response has exactly n choices, choice i
\* is the single choice of the reply run i returned, and id, model and created
\* are those of the reply run 1 (the first task) returned. The reply a run
\* returned is read from its frame: the merge rewrites the dict run 1
\* returned, so after it ret[1] is the merged response itself.
C7_FanoutOrdering ==
    cpc = "done"
    => /\ Len(outp.choices) = n
       /\ \A j \in 1..n :
             /\ Len(frame[j].response.choices) = 1
             /\ outp.choices[j] = frame[j].response.choices[1]
       /\ outp.id = frame[1].response.id
       /\ outp.model = frame[1].response.model
       /\ outp.created = frame[1].response.created

\* A merged response of two runs where the second run's reply came first.
C7_Witness ==
    /\ cpc = "done"
    /\ n >= 2
    /\ frame[2].response.created < frame[1].response.created
    /\ outp.choices[1] # outp.choices[2]

SystemIndices(ms) == {k \in 1..Len(ms) : IsSystemRole(ms[k])}

\* C8. System-message invariant: right after the normalization step the
\* conversation holds at most one system or developer message, at position 0
\* (index 1 here).
C8_SystemMessageInvariant ==
    \A r \in Runs :
        pc[r] = "normalized"
        => /\ Cardinality(SystemIndices(messages)) <= 1
           /\ SystemIndices(messages) \subseteq {1}

\* C9. Normalization idempotence: a normalization of a conversation that has
\* been normalized before (by an outer level or by another call) leaves the
\* number of system messages as it was, and the configured system prompt is
\* then the first message and occurs once.
C9_NormalizationIdempotence ==
    [][\A r \in Runs :
          ( /\ pc[r] = "enter"
            /\ pc'[r] = "normalized"
            /\ (frame[r].depth > 1 \/ \E s \in Runs : pc[s] \notin {"enter", "unused"}) )
          => /\ Cardinality(SystemIndices(messages')) = Cardinality(SystemIndices(messages))
             /\ Truthy(system_prompt)
                => /\ messages'[1] = SystemMessage(system_prompt)
                   /\ Cardinality({k \in 1..Len(messages') :
                                     messages'[k] = SystemMessage(system_prompt)}) = 1
      ]_vars

\* The index of the nearest assistant message before index k, 0 when there is none.
NearestAssistant(k) ==
    LET before == {a \in 1..(k - 1) : messages[a].role = "assistant"}
    IN  IF before = {} THEN 0
        ELSE CHOOSE a \in before : \A b \in before : b <= a

\* The tool-call turn that the assistant message am of run r opened has
\* completed without short-circuit.
TurnCompleted(r, am) ==
    /\ CallsOf(am) # <<>>
    /\ call.auto_tool_call
    /\ \/ frame[r].tool_calls # am.tool_calls
       \/ pc[r] = "tool_loop" /\ frame[r].i > Len(CallsOf(am))

\* C10. Tool-message linkage: every tool message that get_response appended
\* carries the id and the function name of a tool call of the nearest
\* preceding assistant message; and once a tool-call turn has completed
\* without short-circuit there is exactly one tool message per tool call of
\* its assistant message.
C10_ToolMessageLinkage ==
    /\ \A k \in 1..Len(messages) :
          (messages[k].role = "tool" /\ messages[k] \in UNION {appended[r] : r \in Runs})
          => LET a == NearestAssistant(k)
             IN  /\ a > 0
                 /\ \E j \in 1..Len(CallsOf(messages[a])) :
                       /\ CallsOf(messages[a])[j].id = messages[k].tool_call_id
                       /\ CallsOf(messages[a])[j].function.name = messages[k].name
    /\ \A r \in 1..n : \A am \in appended[r] :
          (am.role = "assistant" /\ TurnCompleted(r, am))
          => \A j \in 1..Len(CallsOf(am)) :
                Cardinality(ToolIndices(CallsOf(am)[j].id)) = 1

-----------------------------------------------------------------------------
\* C11. Tool offer rule: every completion request carries the full catalog
\* (one descriptor per public tool) and tool_choice "auto" when the last
\* message of the conversation it was built from does not have role tool, and
\* neither field when it has.
C11_ToolOfferRule ==
    \A r \in 1..n :
        request_body[r] # PyNone
        => LET body == request_body[r]
           IN  IF Last(body.messages).role # "tool"
               THEN /\ {"tools", "tool_choice"} \subseteq DOMAIN body
                    /\ body.tools = tool_signatures
                    /\ Range(body.tools) = ToolNames
                    /\ body.tool_choice = "auto"
               ELSE {"tools", "tool_choice"} \cap DOMAIN body = {}

\* The first request of a call, built from a normalized conversation that ends
\* with a tool message, is in flight without the tool fields.
C11_Witness ==
    \E r \in 1..n :
        /\ pc[r] = "awaiting_post"
        /\ frame[r].depth = 1
        /\ Truthy(system_prompt)
        /\ Last(request_body[r].messages).role = "tool"
        /\ "tools" \notin DOMAIN request_body[r]

\* C12. Upstream failure is terminal: when the endpoint answers a request of a
\* run with a non-2xx status, the run fails in that step with the upstream
\* HTTP error, appending nothing and invoking no tool; and a run that has
\* failed sends no further request, invokes no tool and appends nothing.
C12_UpstreamFailureTerminal ==
    [][\A r \in Runs :
          /\ (pc[r] = "awaiting_post" /\ pc'[r] = "raised")
             => /\ ret'[r].kind = "HTTPStatusError"
                /\ messages' = messages
                /\ appended'[r] = appended[r]
                /\ attempted'[r] = attempted[r]
                /\ executed'[r] = executed[r]
                /\ request_body'[r] = request_body[r]
          /\ pc[r] = "raised"
             => /\ pc'[r] = "raised"
                /\ ret'[r] = ret[r]
                /\ appended'[r] = appended[r]
                /\ attempted'[r] = attempted[r]
                /\ executed'[r] = executed[r]
                /\ request_body'[r] = request_body[r]
      ]_vars

\* C13. Registry closure: the callables _call_tool ever calls are those the
\* catalog advertises, the public functions of the tool collection; and an
\* invocation that names anything else (an underscore-prefixed member, an
\* unknown name) fails with an exception of the lookup and calls nothing.
C13_RegistryClosure ==
    /\ Range(tool_signatures) = ToolNames
    /\ \A r \in 1..n :
          /\ Range(executed[r]) \subseteq Range(tool_signatures)
          /\ \A k \in 1..Len(attempted[r]) :
                attempted[r][k].function.name \notin Range(tool_signatures)
                => /\ ~Callable(attempted[r][k])
                   /\ Raises(attempted[r][k])

\* The tool loop of the level has handled every tool call of the reply
\* without an early return.
TurnComplete(r) ==
    /\ pc[r] = "tool_loop"
    /\ frame[r].i > Len(frame[r].tool_calls.v)

\* The level of run r runs the tools its replies ask for: the caller asked
\* for it, and every level entered by recursion does.
RunsTools(r) == frame[r].depth > 1 \/ call.auto_tool_call

\* A step of run r keeps the recursion going, at whatever depth: a reply that
\* asks for tools starts a tool turn; a completed tool turn enters a level one
\* deeper, which runs tools too; an entered level normalizes and sends its
\* completion request. The run returns only on a reply without tool calls,
\* on a failed tool under fail_on_tool_error, or when the caller asked for
\* no tool execution.
KeepsRecursing(r) ==
    /\ ( /\ pc[r] = "awaiting_post"
         /\ pc'[r] \notin {"awaiting_post", "raised"}
         /\ ~CarriesNoToolCalls(frame'[r].response)
         /\ RunsTools(r) )
       => /\ pc'[r] = "tool_loop"
          /\ frame'[r].depth = frame[r].depth
    /\ (TurnComplete(r) /\ <<pc[r], frame[r]>> # <<pc'[r], frame'[r]>>)
       => /\ pc'[r] = "enter"
          /\ frame'[r].depth = frame[r].depth + 1
          /\ frame'[r].auto_tool_call
    /\ (pc[r] = "enter" /\ pc'[r] # "enter")
       => /\ pc'[r] = "normalized"
          /\ frame'[r].depth = frame[r].depth
    /\ (pc[r] = "normalized" /\ pc'[r] # "normalized" /\ messages # <<>>)
       => /\ pc'[r] = "awaiting_post"
          /\ request_body'[r] = RequestBody(messages)
          /\ frame'[r].depth = frame[r].depth
    /\ (pc[r] # "returned" /\ pc'[r] = "returned")
       => \/ CarriesNoToolCalls(ret'[r])
          \/ frame[r].fail_on_tool_error = PyBool(TRUE) /\ IsErrorPayload(ret'[r])
          \/ ~RunsTools(r)

\* No step of the recursion waits for anything but the event loop's turn: a
\* completed tool turn can recurse, an entered level can normalize and a
\* normalized level can send its request, at whatever depth.
NothingStopsRecursion(r) ==
    /\ TurnComplete(r) => ENABLED Recurse(r)
    /\ (pc[r] = "enter" /\ frame[r].depth > 1) => ENABLED Normalize(r)
    /\ pc[r] = "normalized" => ENABLED Post(r)

C18_EveryInvocationRecorded ==
    \A r \in 1..n : \A k \in 1..Len(attempted[r]) :
        Finished(r, k)
        => LET tool_call == attempted[r][k]
               tool_message == ToolMessage(ToolResponse(FinalOutcome(tool_call)), tool_call)
           IN  /\ tool_message \in appended[r]
               /\ tool_message \in Range(messages)

\* C19. Sequential tool execution: when a run has started an invocation, the
\* tool message of every invocation it started before is in the conversation;
\* and while an invocation is in progress (an awaited coroutine tool) it is
\* the last one the run started and it has no tool message yet.
C19_SequentialExecution ==
    \A r \in 1..n :
        /\ \A k \in 1..Len(attempted[r]) : \A j \in 1..(k - 1) :
              ToolIndices(attempted[r][j].id) # {}
        /\ pc[r] = "awaiting_tool"
           => /\ attempted[r] # <<>>
              /\ Last(attempted[r]) = frame[r].tool_calls.v[frame[r].i]
              /\ ToolIndices(Last(attempted[r]).id) = {}

\* A coroutine tool is in progress as the second call of a turn, after the
\* first call of the turn failed and was recorded.
C19_Witness ==
    \E r \in 1..n :
        /\ pc[r] = "awaiting_tool"
        /\ frame[r].i = 2
        /\ Fails(frame[r].tool_calls.v[1])
        /\ ToolIndices(frame[r].tool_calls.v[1].id) # {}

\* C20. Per-call error policy across recursion: every level of a call chain
\* runs under the fail_on_tool_error value and the auto_tool_call value of the
\* outermost call (the Toolbox default only when the caller gave none).
C20_PolicyPreserved ==
    \A r \in 1..n :
        pc[r] \notin {"unused", "enter"}
        => /\ frame[r].fail_on_tool_error = PyBool(ChainPolicy)
           /\ frame[r].auto_tool_call = call.auto_tool_call

\* C21. Recursive requests never offer tools: when a level entered by
\* recursion starts, the last message of the conversation is a tool message;
\* and the request such a level has sent ends with a tool message and carries
\* neither the tool catalog nor tool_choice.
C21_RecursiveRequestsOfferNoTools ==
    \A r \in 1..n :
        frame[r].depth > 1
        => /\ pc[r] \in {"enter", "normalized"} => Last(messages).role = "tool"
           /\ pc[r] \notin {"enter", "normalized"}
              => /\ Last(request_body[r].messages).role = "tool"
                 /\ {"tools", "tool_choice"} \cap DOMAIN request_body[r] = {}

\* The request of a recursive level is in flight while the conversation
\* already holds an assistant message of a sibling run.
C21_Witness ==
    \E r \in 1..n :
        /\ pc[r] = "awaiting_post"
        /\ frame[r].depth > 1
        /\ "tools" \notin DOMAIN request_body[r]
        /\ \E s \in (1..n) \ {r} : appended[s] # {}

NotSystemRole(m) == ~IsSystemRole(m)

\* The messages of a conversation that are not system or developer messages.
NonSystem(ms) == SelectSeq(ms, NotSystemRole)

IsPrefix(s, t) == Len(s) <= Len(t) /\ SubSeq(t, 1, Len(s)) = s

\* C22. History is append-only apart from the system slot: every step leaves
\* the non-system messages of the conversation in place, unmodified and in
\* order, and adds behind them only assistant and tool messages that a run
\* appended; so at every later state the non-system messages of the input
\* are a prefix of the non-system messages of the conversation.
C22_AppendOnlyHistory ==
    [][LET old == NonSystem(messages)
           new == NonSystem(messages')
       IN  /\ IsPrefix(old, new)
           /\ \A k \in (Len(old) + 1)..Len(new) :
                 /\ new[k].role \in {"assistant", "tool"}
                 /\ new[k] \in UNION {appended'[r] : r \in Runs}
      ]_vars

\* A call on the input [system A, system B, user] has returned after a tool
\* turn: the leading system message is gone, the prompt is in front, and an
\* assistant and a tool message follow the user message.
C22_Witness ==
    /\ Truthy(system_prompt)
    /\ SystemMessage("B") \in Range(messages)
    /\ SystemMessage("A") \notin Range(messages)
    /\ messages[1] = SystemMessage(system_prompt)
    /\ \E r \in 1..n : pc[r] = "returned" /\ frame[r].depth > 1
    /\ \E k \in 1..Len(messages) : messages[k].role = "tool"

-----------------------------------------------------------------------------
\* The descriptor generator (checked under DescriptorSpec).

\* The indices of the entries of the Parameters section for parameter k.
DocIndices(k) ==
    {d \in 1..Len(input_function.docs) :
        input_function.docs[d].name = input_function.params[k].name}

\* The properties entry the descriptor has for parameter k.
Property(k) ==
    descriptor.function.parameters.properties[input_function.params[k].name]

\* C15. Enumerated parameters: a parameter whose documented type is a set of
\* string literals in braces gets type "string" and an enum entry that holds
\* the values of the set.
C15_EnumeratedParameters ==
    descriptor # PyNone
    => \A k \in 1..Len(input_function.params) : \A d \in DocIndices(k) :
          LET tokens == input_function.docs[d].type
          IN  ( /\ Len(tokens) >= 3
                /\ tokens[1] = "{" /\ tokens[Len(tokens)] = "}"
                /\ \A i \in 2..(Len(tokens) - 1) : tokens[i] \in Quoted \cup {","} )
              => /\ Property(k).type = "string"
                 /\ "enum" \in DOMAIN Property(k)
                 /\ Range(Property(k).enum) = {Unquote(tokens[i]) :
                                                  i \in {j \in 1..Len(tokens) : tokens[j] \in Quoted}}

JsonTypes == {"string", "integer", "number", "boolean", "array", "object", "null"}

\* C16. Parameter type resolution: the type of every parameter is one of the
\* seven JSON schema types; when the Parameters section names a type for the
\* parameter it is the mapping of that type ("string" for a set in braces),
\* and when the parameter is not documented, or documented without a type, it
\* is the mapping of the annotation; unrecognized names map to "string".
C16_TypeResolution ==
    descriptor # PyNone
    => \A k \in 1..Len(input_function.params) :
          LET typed == {d \in DocIndices(k) : input_function.docs[d].type # <<>>}
          IN  /\ Property(k).type \in JsonTypes
              /\ \A d \in typed :
                    LET tokens == input_function.docs[d].type
                    IN  Property(k).type = IF tokens[1] = "{" THEN "string"
                                           ELSE json_schema_type(tokens[1])
              /\ typed = {}
                 => Property(k).type = json_schema_type(input_function.params[k].annotation)

\* The position of a parameter name in the declaration, 0 when it is none.
Declared(name) ==
    LET at == {k \in 1..Len(input_function.params) : input_function.params[k].name = name}
    IN  IF at = {} THEN 0 ELSE CHOOSE k \in at : TRUE

\* C17. Required parameters: the required list holds the parameters without
\* a default value and no others, each once, in declaration order; the key is
\* absent when every parameter has a default.
C17_RequiredParameters ==
    descriptor # PyNone
    => LET parameters == descriptor.function.parameters
           lacking == {k \in 1..Len(input_function.params) :
                          ~input_function.params[k].has_default}
       IN  IF lacking = {} THEN "required" \notin DOMAIN parameters
           ELSE /\ "required" \in DOMAIN parameters
                /\ {Declared(nm) : nm \in Range(parameters.required)} = lacking
                /\ \A i, j \in 1..Len(parameters.required) :
                      i < j => Declared(parameters.required[i]) < Declared(parameters.required[j])

\* The descriptor of a callable whose first parameter has a default and whose
\* second has none.
C17_Witness ==
    /\ descriptor # PyNone
    /\ Len(input_function.params) >= 2
    /\ input_function.params[1].has_default
    /\ ~input_function.params[2].has_default
    /\ descriptor.function.parameters.required = <<input_function.params[2].name>>

====
